---- MODULE Spec2Model ----
(***************************************************************************)
(* Security IoT System: the Edge Loop of raspberry_pi/motion_detector.py   *)
(* and the Capture Listener of server/camera_server.py.                    *)
(*                                                                         *)
(* Units.  Time is counted in ticks of 0.1 s (the loop's sleep slice), so  *)
(* 5.0 s = 50 ticks, 1.0 s = 10 ticks and int(now * 2) = now \div 5.       *)
(* Distances are counted in thousandths of a centimetre, so 20.0 cm =      *)
(* 20000 and the two decimals of "{distance:.2f}" are hundredths.          *)
(*                                                                         *)
(* Clock.  time.time() is seconds since 1970, far more than any interval   *)
(* the program compares.  The model keeps the wall clock in the window     *)
(* EPOCH .. EPOCH + SECOND - 1: when it would leave the window, the clock  *)
(* and every stored time stamp are moved back by one whole second, and a   *)
(* stamp that would go below 0 stays 0.  A whole second keeps the parity   *)
(* int(now * 2) % 2 and every difference of stamps; a stamp held at 0 is   *)
(* at least EPOCH ticks old, which is beyond every interval the program    *)
(* compares with (5.0 s at most), so every comparison of the code has the  *)
(* value it has on the real clock.  0 is also the value the code   *)
(* gives last_camera_signal_time at start.                                 *)
(***************************************************************************)
EXTENDS Integers, Sequences, FiniteSets, TLC

(* ---------------------------------------------------------------- *)
(* Program constants                                                *)
(* ---------------------------------------------------------------- *)
MOTION_THRESHOLD == 20000
LOG_INTERVAL == 10
camera_signal_cooldown == 50
SLEEP == 1
SECOND == 10 * SLEEP
HALF_SECOND == SECOND \div 2
\* the header line "Time,Distance(cm),Status", by its fields
Header == [time |-> "Time", distance |-> "Distance(cm)", status |-> "Status"]

(* ---------------------------------------------------------------- *)
(* Bounds of the model                                              *)
(* ---------------------------------------------------------------- *)
\* how long (ticks) a connect-and-send blocks when it does not return at
\* once; the socket timeout of 5 s is the real limit
MaxSendTicks == 5
\* how much longer than 0.1 s one pass of the loop may take (ticks)
MaxJitter == 1

\* the wall clock's window starts here (see "Clock" above): late enough
\* that a stamp held at 0 is older than the cooldown even when measured
\* from the start of a pass that has blocked in a send since
EPOCH == camera_signal_cooldown + MaxSendTicks + MaxJitter + SLEEP + 1

\* how many times the program is started
MaxRuns == 2
\* how long the listener host's clock is followed (ticks)
MaxSrvClock == 25

\* sensor.distance * 100 as the sensor can report it
Readings == {0, MOTION_THRESHOLD}
\* arguments log_distance_data is applied to on its own
LogDistances == {0, MOTION_THRESHOLD - 6, MOTION_THRESHOLD - 4,
                 MOTION_THRESHOLD, MOTION_THRESHOLD + 4, MOTION_THRESHOLD + 5000}

VARIABLES
    pc,                       \* position of the Edge Loop process
    clock,                    \* time.time(), in ticks
    distance,                 \* main's local `distance`
    led,                      \* TRUE when the LED is lit
    current_time,             \* main's local `current_time`
    last_log_time,            \* main's local `last_log_time`
    last_camera_signal_time,  \* main's local `last_camera_signal_time`
    logfile,                  \* the lines of LOG_FILE
    pin_writes,               \* blynk.virtual_write calls made in this pass
    listener_up,              \* the capture listener can be reached now
    signal_result,            \* what the latest send_camera_capture_signal returned
    pass_start,               \* when the current pass of the loop began
    last_ok_pass,             \* pass_start of the pass whose send last succeeded
    last_done,                \* when the last successful send returned
    runs,                     \* how many times the program has been started
    init_failed,              \* some initialize_log_file call has raised
    srv_pc,                   \* position of the Capture Listener process
    srv_clock,                \* the listener host's clock, in ticks
    conn,                     \* bytes the accepted connection delivers
    data,                     \* the listener's `data`
    ret,                      \* the listener's `ret`
    cam_open,                 \* camera handles the listener holds
    captures,                 \* names of the files in captures/
    captures_before,          \* captures when the connection was accepted
    peer,                     \* what the accepted connection's client has done
    conn_open,                \* accepted connections the listener has not closed
    sig_pc,                   \* position inside send_camera_capture_signal
    s_set,                    \* its local `s` is a socket (not None)
    open_socks,               \* sockets the Edge Loop process holds open
    connected,                \* s.connect returned
    sent,                     \* s.send returned
    sig_ret                   \* the value the call returns

edge_vars == <<pc, clock, distance, led, current_time, last_log_time,
               last_camera_signal_time, logfile, pin_writes, listener_up,
               signal_result, pass_start, last_ok_pass, last_done, runs,
               init_failed>>

srv_vars == <<srv_pc, srv_clock, conn, data, ret, cam_open, captures,
              captures_before, peer, conn_open>>

sig_vars == <<sig_pc, s_set, open_socks, connected, sent, sig_ret>>

vars == <<edge_vars, srv_vars, sig_vars>>

(* ---------------------------------------------------------------- *)
(* Wall clock                                                       *)
(* ---------------------------------------------------------------- *)
Max0(x) == IF x < 0 THEN 0 ELSE x

\* the clock after d more ticks
ClockAfter(d) ==
    IF clock + d >= EPOCH + SECOND THEN clock + d - SECOND ELSE clock + d

\* a stored stamp s after d more ticks
StampAfter(s, d) ==
    IF clock + d >= EPOCH + SECOND THEN Max0(s - SECOND) ELSE s

\* d ticks pass
Elapse(d) ==
    /\ clock' = ClockAfter(d)
    /\ current_time' = StampAfter(current_time, d)
    /\ last_log_time' = StampAfter(last_log_time, d)
    /\ last_camera_signal_time' = StampAfter(last_camera_signal_time, d)
    /\ pass_start' = StampAfter(pass_start, d)
    /\ last_ok_pass' = StampAfter(last_ok_pass, d)
    /\ last_done' = StampAfter(last_done, d)

(* ---------------------------------------------------------------- *)
(* Functions of motion_detector.py                                  *)
(* ---------------------------------------------------------------- *)
\* read_distance returning the threshold when the sensor read raises
read_distance_FailFar(reading, ok) ==
    IF ok THEN (IF reading > 0 THEN reading ELSE 0) ELSE MOTION_THRESHOLD

\* read_distance: max(0, reading), or 0.0 when the sensor read raises
read_distance(reading, ok) ==
    IF ok THEN (IF reading > 0 THEN reading ELSE 0) ELSE 0

\* control_led_alarm with <= for <
control_led_alarm_AtMost(d, t) ==
    IF d <= MOTION_THRESHOLD
    THEN (t \div HALF_SECOND) % 2 = 0
    ELSE FALSE

\* control_led_alarm: the LED state it leaves, called at time t
control_led_alarm(d, t) ==
    IF d < MOTION_THRESHOLD
    THEN (t \div HALF_SECOND) % 2 = 0
    ELSE FALSE

\* the cooldown test against the wrong interval
CooldownOver_LogInterval(t, last) == t - last > LOG_INTERVAL

\* main, line 193: the cooldown test
CooldownOver(t, last) == t - last > camera_signal_cooldown

\* the interval test against half the interval
LogDue_HalfInterval(t, last) == t - last >= HALF_SECOND

\* main, line 199: the interval test
LogDue(t, last) == t - last >= LOG_INTERVAL

\* send_data_to_blynk: the virtual_write calls that complete when the
\* call number `done + 1` raises (done = 2: none raises)
send_data_to_blynk(d, done) ==
    SubSeq(<< <<0, d>>, <<1, IF d < MOTION_THRESHOLD THEN 1 ELSE 0>> >>, 1, done)

\* "{distance:.2f}": hundredths, rounded to nearest (no argument used
\* here lies half-way between two hundredths)
Format2(d) == (d + 5) \div 10

\* log_distance_data with <= for <
LogLine_AtMost(d) ==
    [time |-> "YYYY-MM-DD HH:MM:SS",
     distance |-> Format2(d),
     status |-> IF d <= MOTION_THRESHOLD THEN "NOT SAFE" ELSE "SAFE"]

\* log_distance_data: the line written, by its fields (the time field
\* only by its format)
LogLine(d) ==
    [time |-> "YYYY-MM-DD HH:MM:SS",
     distance |-> Format2(d),
     status |-> IF d < MOTION_THRESHOLD THEN "NOT SAFE" ELSE "SAFE"]

\* the file as the model keeps it: its first line and its last line (the
\* program only appends, and never reads the file)
Kept(f) ==
    IF Len(f) > 2 THEN <<f[1], f[Len(f)]>> ELSE f

\* initialize_log_file without the test of f.tell()
initialize_log_file_NoTest(f, ok) ==
    IF ok THEN Kept(Append(f, Header)) ELSE f

\* initialize_log_file: the file it leaves; ok = FALSE when open or write raises
initialize_log_file(f, ok) ==
    IF ok /\ Len(f) = 0 THEN <<Header>> ELSE f

\* log_distance_data: the file it leaves; ok = FALSE when open or write raises
log_distance_data(f, d, ok) ==
    IF ok THEN Kept(Append(f, LogLine(d))) ELSE f

(* ---------------------------------------------------------------- *)
(* Edge Loop                                                        *)
(* ---------------------------------------------------------------- *)
Init ==
    /\ pc = "start"
    /\ clock \in EPOCH .. EPOCH + SECOND - 1
    /\ distance = 0
    /\ led = FALSE
    /\ current_time = 0
    /\ last_log_time = 0
    /\ last_camera_signal_time = 0
    /\ logfile = << >>
    /\ pin_writes = << >>
    /\ listener_up \in BOOLEAN
    /\ signal_result = "none"
    /\ pass_start = 0
    /\ last_ok_pass = 0
    /\ last_done = 0
    /\ runs = 0
    /\ init_failed = FALSE
    /\ srv_pc = "listening"
    /\ srv_clock = 0
    /\ conn = << >>
    /\ data = << >>
    /\ ret = FALSE
    /\ cam_open = 0
    /\ captures = {}
    /\ captures_before = {}
    /\ peer = "none"
    /\ conn_open = 0
    /\ sig_pc = "idle"
    /\ s_set = FALSE
    /\ open_socks = 0
    /\ connected = FALSE
    /\ sent = FALSE
    /\ sig_ret = "none"

\* main, lines 167-177
Start(ok) ==
    /\ pc = "start"
    /\ pc' = "poll"
    /\ logfile' = initialize_log_file(logfile, ok)
    /\ last_log_time' = clock
    /\ last_camera_signal_time' = 0
    /\ runs' = runs + 1
    /\ init_failed' = (init_failed \/ ~ok)
    /\ UNCHANGED <<clock, distance, led, current_time, pin_writes, listener_up,
                   signal_result, pass_start, last_ok_pass, last_done>>
    /\ UNCHANGED <<srv_vars, sig_vars>>

\* main, lines 182-193: pump, read the sensor, drive the LED, decide on a send
Poll(reading, ok) ==
    /\ pc = "poll"
    /\ pass_start' = clock
    /\ pin_writes' = << >>
    /\ distance' = read_distance(reading, ok)
    /\ led' = control_led_alarm(distance', clock)
    /\ IF distance' < MOTION_THRESHOLD
       THEN /\ current_time' = clock
            /\ pc' = IF CooldownOver(clock, last_camera_signal_time)
                     THEN "sending" ELSE "flush"
       ELSE /\ current_time' = current_time
            /\ pc' = "flush"
    /\ UNCHANGED <<clock, last_log_time, last_camera_signal_time, logfile,
                   listener_up, signal_result, last_ok_pass, last_done,
                   runs, init_failed>>
    /\ UNCHANGED <<srv_vars, sig_vars>>

\* send_camera_capture_signal blocks in connect or send
SendWait ==
    /\ pc = "sending"
    /\ clock = current_time
    /\ Elapse(MaxSendTicks)
    /\ UNCHANGED <<pc, distance, led, logfile, pin_writes, listener_up,
                   signal_result, runs, init_failed>>
    /\ UNCHANGED <<srv_vars, sig_vars>>

\* send_camera_capture_signal returns True; main, line 195
SendOk ==
    /\ pc = "sending"
    /\ listener_up
    /\ signal_result' = "ok"
    /\ last_camera_signal_time' = current_time
    /\ last_ok_pass' = pass_start
    /\ last_done' = clock
    /\ pc' = "flush"
    /\ UNCHANGED <<clock, distance, led, current_time, last_log_time, logfile,
                   pin_writes, listener_up, pass_start, runs, init_failed>>
    /\ UNCHANGED <<srv_vars, sig_vars>>

\* main, line 195, run whatever send_camera_capture_signal returned
SendFail_ResetsTimer ==
    /\ pc = "sending"
    /\ ~listener_up
    /\ signal_result' = "failed"
    /\ last_camera_signal_time' = current_time
    /\ pc' = "flush"
    /\ UNCHANGED <<clock, distance, led, current_time, last_log_time,
                   logfile, pin_writes, listener_up,
                   pass_start, last_ok_pass, last_done, runs, init_failed>>
    /\ UNCHANGED <<srv_vars, sig_vars>>

\* send_camera_capture_signal returns False
SendFail ==
    /\ pc = "sending"
    /\ ~listener_up
    /\ signal_result' = "failed"
    /\ pc' = "flush"
    /\ UNCHANGED <<clock, distance, led, current_time, last_log_time,
                   last_camera_signal_time, logfile, pin_writes, listener_up,
                   pass_start, last_ok_pass, last_done, runs, init_failed>>
    /\ UNCHANGED <<srv_vars, sig_vars>>

\* main, lines 198-202; `done` and `ok` are what the cloud and the file allow
Flush(done, ok) ==
    /\ pc = "flush"
    /\ current_time' = clock
    /\ IF LogDue(clock, last_log_time)
       THEN /\ pin_writes' = send_data_to_blynk(distance, done)
            /\ logfile' = log_distance_data(logfile, distance, ok)
            /\ last_log_time' = clock
       ELSE UNCHANGED <<pin_writes, logfile, last_log_time>>
    /\ pc' = "sleep"
    /\ UNCHANGED <<clock, distance, led, last_camera_signal_time, listener_up,
                   signal_result, pass_start, last_ok_pass, last_done, runs,
                   init_failed>>
    /\ UNCHANGED <<srv_vars, sig_vars>>

\* main, line 205
Sleep(j) ==
    /\ pc = "sleep"
    /\ Elapse(SLEEP + j)
    /\ pc' = "poll"
    /\ UNCHANGED <<distance, led, logfile, pin_writes, listener_up,
                   signal_result, runs, init_failed>>
    /\ UNCHANGED <<srv_vars, sig_vars>>

\* main, lines 207-208: KeyboardInterrupt
Stop ==
    /\ pc \in {"poll", "sending", "flush", "sleep"}
    /\ pc' = "stopped"
    /\ UNCHANGED <<clock, distance, led, current_time, last_log_time,
                   last_camera_signal_time, logfile, pin_writes, listener_up,
                   signal_result, pass_start, last_ok_pass, last_done, runs,
                   init_failed>>
    /\ UNCHANGED <<srv_vars, sig_vars>>

\* main, lines 209-210: blynk.run() (line 182) or the LED drive inside
\* control_led_alarm (line 188) raises; neither call is inside a try of
\* its own, so the exception reaches main's handler, which prints and
\* leaves the loop
LoopError ==
    /\ pc = "poll"
    /\ pc' = "failed"
    /\ UNCHANGED <<clock, distance, led, current_time, last_log_time,
                   last_camera_signal_time, logfile, pin_writes, listener_up,
                   signal_result, pass_start, last_ok_pass, last_done, runs,
                   init_failed>>
    /\ UNCHANGED <<srv_vars, sig_vars>>

\* the network between the two hosts
ListenerChange ==
    /\ listener_up' = ~listener_up
    /\ UNCHANGED <<pc, clock, distance, led, current_time, last_log_time,
                   last_camera_signal_time, logfile, pin_writes, signal_result,
                   pass_start, last_ok_pass, last_done, runs, init_failed>>
    /\ UNCHANGED <<srv_vars, sig_vars>>

Next ==
    \/ \E ok \in BOOLEAN : Start(ok)
    \/ \E r \in Readings, ok \in BOOLEAN : Poll(r, ok)
    \/ SendWait
    \/ SendOk
    \/ SendFail
    \/ \E done \in 0 .. 2, ok \in BOOLEAN : Flush(done, ok)
    \/ \E j \in 0 .. MaxJitter : Sleep(j)
    \/ Stop
    \/ LoopError
    \/ ListenerChange

Spec == Init /\ [][Next]_vars

(* ---------------------------------------------------------------- *)
(* The Edge Loop under a continuous alarm, never interrupted        *)
(* ---------------------------------------------------------------- *)
AlarmReadings == {r \in Readings : r < MOTION_THRESHOLD}

Return == SendOk \/ SendFail

LiveNext ==
    \/ \E ok \in BOOLEAN : Start(ok)
    \/ \E r \in AlarmReadings, ok \in BOOLEAN : Poll(r, ok)
    \/ SendWait
    \/ Return
    \/ \E done \in 0 .. 2, ok \in BOOLEAN : Flush(done, ok)
    \/ \E j \in 0 .. MaxJitter : Sleep(j)
    \/ ListenerChange

\* the loop is one thread that always takes its next step, and a blocked
\* connect or send returns (the socket has a timeout)
LiveSpec ==
    /\ Init
    /\ [][LiveNext]_vars
    /\ WF_vars(\E ok \in BOOLEAN : Start(ok))
    /\ WF_vars(\E r \in AlarmReadings, ok \in BOOLEAN : Poll(r, ok))
    /\ WF_vars(Return)
    /\ WF_vars(\E done \in 0 .. 2, ok \in BOOLEAN : Flush(done, ok))
    /\ WF_vars(\E j \in 0 .. MaxJitter : Sleep(j))

(* ---------------------------------------------------------------- *)
(* The log file under any calls, and across restarts                *)
(* ---------------------------------------------------------------- *)
\* log_distance_data(d) called on its own
LogData(d, ok) ==
    /\ pc = "poll"
    /\ distance' = d
    /\ logfile' = log_distance_data(logfile, d, ok)
    /\ UNCHANGED <<pc, clock, led, current_time, last_log_time,
                   last_camera_signal_time, pin_writes, listener_up,
                   signal_result, pass_start, last_ok_pass, last_done, runs,
                   init_failed>>
    /\ UNCHANGED <<srv_vars, sig_vars>>

\* the program is run again: a new process, the same file and clock
Restart ==
    /\ pc = "stopped"
    /\ runs < MaxRuns
    /\ pc' = "start"
    /\ distance' = 0
    /\ led' = FALSE
    /\ current_time' = 0
    /\ last_log_time' = 0
    /\ last_camera_signal_time' = 0
    /\ pin_writes' = << >>
    /\ signal_result' = "none"
    /\ pass_start' = 0
    /\ last_ok_pass' = 0
    /\ last_done' = 0
    /\ UNCHANGED <<clock, logfile, listener_up, runs, init_failed>>
    /\ UNCHANGED <<srv_vars, sig_vars>>

LogNext ==
    \/ \E ok \in BOOLEAN : Start(ok)
    \/ \E d \in LogDistances, ok \in BOOLEAN : LogData(d, ok)
    \/ Stop
    \/ Restart

LogSpec == Init /\ [][LogNext]_vars

(* ---------------------------------------------------------------- *)
(* send_camera_capture_signal, statement by statement               *)
(* ---------------------------------------------------------------- *)
\* line 115: the call begins with s = None
SigCall ==
    /\ sig_pc = "idle"
    /\ sig_pc' = "socket"
    /\ s_set' = FALSE
    /\ connected' = FALSE
    /\ sent' = FALSE
    /\ sig_ret' = "none"
    /\ UNCHANGED open_socks
    /\ UNCHANGED <<edge_vars, srv_vars>>

\* lines 117-118: socket.socket() and settimeout; ok = FALSE when
\* socket.socket() raises, which leaves s = None
SigSocket(ok) ==
    /\ sig_pc = "socket"
    /\ IF ok
       THEN /\ s_set' = TRUE
            /\ open_socks' = open_socks + 1
            /\ sig_pc' = "connect"
            /\ UNCHANGED sig_ret
       ELSE /\ sig_ret' = "False"
            /\ sig_pc' = "finally"
            /\ UNCHANGED <<s_set, open_socks>>
    /\ UNCHANGED <<connected, sent>>
    /\ UNCHANGED <<edge_vars, srv_vars>>

\* line 119: connect returns when the listener is reachable, and raises
\* (refused, timed out) when it is not
SigConnect ==
    /\ sig_pc = "connect"
    /\ IF listener_up
       THEN /\ connected' = TRUE
            /\ sig_pc' = "send"
            /\ UNCHANGED sig_ret
       ELSE /\ sig_ret' = "False"
            /\ sig_pc' = "finally"
            /\ UNCHANGED connected
    /\ UNCHANGED <<s_set, open_socks, sent>>
    /\ UNCHANGED <<edge_vars, srv_vars>>

\* lines 120-125: send, then return True; ok = FALSE when send raises
SigSend(ok) ==
    /\ sig_pc = "send"
    /\ sent' = ok
    /\ sig_ret' = IF ok THEN "True" ELSE "False"
    /\ sig_pc' = "finally"
    /\ UNCHANGED <<s_set, open_socks, connected>>
    /\ UNCHANGED <<edge_vars, srv_vars>>

\* the finally clause closing the socket only after a True
SigFinally_OnSuccess ==
    /\ sig_pc = "finally"
    /\ open_socks' = IF s_set /\ sig_ret = "True" THEN open_socks - 1 ELSE open_socks
    /\ sig_pc' = "idle"
    /\ UNCHANGED <<s_set, connected, sent, sig_ret>>
    /\ UNCHANGED <<edge_vars, srv_vars>>

\* lines 126-128: the finally clause, and the return
SigFinally ==
    /\ sig_pc = "finally"
    /\ open_socks' = IF s_set THEN open_socks - 1 ELSE open_socks
    /\ sig_pc' = "idle"
    /\ UNCHANGED <<s_set, connected, sent, sig_ret>>
    /\ UNCHANGED <<edge_vars, srv_vars>>

SignalNext ==
    \/ SigCall
    \/ \E ok \in BOOLEAN : SigSocket(ok)
    \/ SigConnect
    \/ \E ok \in BOOLEAN : SigSend(ok)
    \/ SigFinally
    \/ ListenerChange

SignalSpec == Init /\ [][SignalNext]_vars

(* ---------------------------------------------------------------- *)
(* Capture Listener (camera_server.py)                              *)
(* ---------------------------------------------------------------- *)
\* b"capture" and "capture", as byte values and as code points
CAPTURE == <<99, 97, 112, 116, 117, 114, 101>>

\* what a client may have sent when recv(1024) returns
Payloads ==
    { << >>,                      \* the peer closed without sending
      CAPTURE,
      SubSeq(CAPTURE, 1, 4),      \* b"capt"
      CAPTURE \o <<10>>,          \* b"capture\n"
      <<67>> \o Tail(CAPTURE),    \* b"Capture"
      <<195, 169>>,               \* valid UTF-8 of one non-ASCII character
      <<255>>,                    \* not valid UTF-8
      CAPTURE \o <<195>> }        \* b"capture" and a truncated character

\* bytes.decode(): UTF-8, strict, for characters of one or two bytes;
\* ok = FALSE stands for UnicodeDecodeError
RECURSIVE decode(_)
decode(b) ==
    IF Len(b) = 0 THEN [ok |-> TRUE, text |-> << >>]
    ELSE IF b[1] < 128
         THEN LET rest == decode(Tail(b))
              IN [ok |-> rest.ok, text |-> <<b[1]>> \o rest.text]
    ELSE IF b[1] >= 194 /\ b[1] <= 223 /\ Len(b) >= 2
            /\ b[2] >= 128 /\ b[2] <= 191
         THEN LET rest == decode(Tail(Tail(b)))
              IN [ok |-> rest.ok,
                  text |-> <<(b[1] - 192) * 64 + (b[2] - 128)>> \o rest.text]
    ELSE [ok |-> FALSE, text |-> << >>]

\* strftime('%Y%m%d_%H%M%S') of the listener's clock: whole seconds
Timestamp(t) == t \div SECOND

\* line 28: the file name
filename(t) == <<"captures/capture_", Timestamp(t), ".jpg">>

\* line 21: accept returns a connection
Accept(b) ==
    /\ srv_pc = "listening"
    /\ srv_pc' = "accepted"
    /\ conn' = b
    /\ peer' = "silent"
    /\ conn_open' = conn_open + 1
    /\ captures_before' = captures
    /\ UNCHANGED <<srv_clock, data, ret, cam_open, captures>>
    /\ UNCHANGED <<edge_vars, sig_vars>>

\* the client sends its bytes, or closes having sent none
PeerSend ==
    /\ srv_pc = "accepted"
    /\ peer = "silent"
    /\ peer' = "sent"
    /\ UNCHANGED <<srv_pc, srv_clock, conn, data, ret, cam_open, captures,
                   captures_before, conn_open>>
    /\ UNCHANGED <<edge_vars, sig_vars>>

\* the client resets the connection
PeerReset ==
    /\ srv_pc = "accepted"
    /\ peer = "silent"
    /\ peer' = "reset"
    /\ UNCHANGED <<srv_pc, srv_clock, conn, data, ret, cam_open, captures,
                   captures_before, conn_open>>
    /\ UNCHANGED <<edge_vars, sig_vars>>

\* line 22 for a payload that is not the signal, the connection left open
Recv_KeepsOpen ==
    /\ srv_pc = "accepted"
    /\ peer \in {"sent", "reset"}
    /\ IF peer = "sent" /\ decode(conn).ok
       THEN /\ data' = decode(conn).text
            /\ srv_pc' = IF data' = CAPTURE THEN "decoded" ELSE "listening"
            /\ UNCHANGED <<peer, conn_open>>
       ELSE /\ data' = data
            /\ srv_pc' = "crashed"
            /\ UNCHANGED <<peer, conn_open>>
    /\ UNCHANGED <<srv_clock, conn, ret, cam_open, captures, captures_before>>
    /\ UNCHANGED <<edge_vars, sig_vars>>

\* line 22, and lines 23 and 32 for a payload that is not the signal.
\* recv(1024) has no timeout: it returns once the client has sent or
\* closed, and raises ConnectionResetError once the client has reset;
\* that error and decode()'s UnicodeDecodeError are caught nowhere
Recv ==
    /\ srv_pc = "accepted"
    /\ peer \in {"sent", "reset"}
    /\ IF peer = "sent" /\ decode(conn).ok
       THEN /\ data' = decode(conn).text
            /\ IF data' = CAPTURE
               THEN /\ srv_pc' = "decoded"
                    /\ UNCHANGED <<peer, conn_open>>
               ELSE /\ srv_pc' = "listening"
                    /\ peer' = "none"
                    /\ conn_open' = conn_open - 1
       ELSE /\ data' = data
            /\ srv_pc' = "crashed"
            /\ UNCHANGED <<peer, conn_open>>
    /\ UNCHANGED <<srv_clock, conn, ret, cam_open, captures, captures_before>>
    /\ UNCHANGED <<edge_vars, sig_vars>>

\* line 25
OpenCamera ==
    /\ srv_pc = "decoded"
    /\ cam_open' = cam_open + 1
    /\ srv_pc' = "camera"
    /\ UNCHANGED <<srv_clock, conn, data, ret, captures, captures_before,
                   peer, conn_open>>
    /\ UNCHANGED <<edge_vars, sig_vars>>

\* lines 26-32 with cam.release() moved under `if ret`
Frame_ReleaseOnSuccess(r) ==
    /\ srv_pc = "camera"
    /\ ret' = r
    /\ captures' = IF r THEN captures \cup {filename(srv_clock)} ELSE captures
    /\ cam_open' = IF r THEN cam_open - 1 ELSE cam_open
    /\ peer' = "none"
    /\ conn_open' = conn_open - 1
    /\ srv_pc' = "listening"
    /\ UNCHANGED <<srv_clock, conn, data, captures_before>>
    /\ UNCHANGED <<edge_vars, sig_vars>>

\* lines 26-32: read a frame, write it if the read succeeded, release, close
\* (r = FALSE also when the camera could not be opened)
Frame(r) ==
    /\ srv_pc = "camera"
    /\ ret' = r
    /\ captures' = IF r THEN captures \cup {filename(srv_clock)} ELSE captures
    /\ cam_open' = cam_open - 1
    /\ peer' = "none"
    /\ conn_open' = conn_open - 1
    /\ srv_pc' = "listening"
    /\ UNCHANGED <<srv_clock, conn, data, captures_before>>
    /\ UNCHANGED <<edge_vars, sig_vars>>

\* lines 33-35
SrvInterrupt ==
    /\ srv_pc \in {"listening", "accepted", "decoded", "camera"}
    /\ srv_pc' = "stopped"
    /\ UNCHANGED <<srv_clock, conn, data, ret, cam_open, captures,
                   captures_before, peer, conn_open>>
    /\ UNCHANGED <<edge_vars, sig_vars>>

\* time passes on the listener's host
SrvTick ==
    /\ srv_clock < MaxSrvClock
    /\ srv_pc \in {"listening", "accepted", "decoded", "camera"}
    /\ srv_clock' = srv_clock + 1
    /\ UNCHANGED <<srv_pc, conn, data, ret, cam_open, captures,
                   captures_before, peer, conn_open>>
    /\ UNCHANGED <<edge_vars, sig_vars>>

ServerNext ==
    \/ \E b \in Payloads : Accept(b)
    \/ PeerSend
    \/ PeerReset
    \/ Recv
    \/ OpenCamera
    \/ \E r \in BOOLEAN : Frame(r)
    \/ SrvInterrupt
    \/ SrvTick

ServerSpec == Init /\ [][ServerNext]_vars

\* the listener never interrupted: it is one thread that takes its next
\* step whenever that step can be taken; nothing obliges a client to send
ServerLiveNext ==
    \/ \E b \in Payloads : Accept(b)
    \/ PeerSend
    \/ PeerReset
    \/ Recv
    \/ OpenCamera
    \/ \E r \in BOOLEAN : Frame(r)
    \/ SrvTick

ServerLiveSpec ==
    /\ Init
    /\ [][ServerLiveNext]_vars
    /\ WF_vars(Recv)
    /\ WF_vars(OpenCamera)
    /\ WF_vars(\E r \in BOOLEAN : Frame(r))

(* ---------------------------------------------------------------- *)
(* Claims about the cooldown                                        *)
(* ---------------------------------------------------------------- *)
PollStep == pc = "poll" /\ pc' \in {"sending", "flush"}
SendOkStep == pc = "sending" /\ pc' = "flush" /\ signal_result' = "ok"
SendFailStep == pc = "sending" /\ pc' = "flush" /\ signal_result' = "failed"

\* C1: no two successful capture-signal sends return less than 5.0 s apart
C1_CompletionsApart ==
    [][SendOkStep => clock - last_done >= camera_signal_cooldown]_vars

\* C2: every alarm pass that begins at least 5.0 s (exactly 5.0 s included)
\* after the last successful capture signal attempts a send
C2_SendWhenCooldownElapsed ==
    [][(PollStep /\ distance' < MOTION_THRESHOLD
            /\ clock - last_done >= camera_signal_cooldown)
        => pc' = "sending"]_vars

\* C3: a send is attempted only in a pass that starts at least 5.0 s after
\* the pass whose send last succeeded
C3_NoSendWithinCooldown ==
    pc = "sending" => pass_start - last_ok_pass >= camera_signal_cooldown

\* C3 witness: an alarm pass 2.0 s after a pass that sent successfully
\* went by without a send
C3_Witness ==
    /\ pc = "flush"
    /\ distance < MOTION_THRESHOLD
    /\ signal_result = "ok"
    /\ pass_start - last_ok_pass = 2 * SECOND

\* C4: a failed send leaves last_camera_signal_time as it was and the loop
\* goes on; the next alarm pass attempts the send again; and once the
\* listener stays reachable, a send succeeds
C4_RetryAfterFailure ==
    /\ [][SendFailStep
            => last_camera_signal_time' = last_camera_signal_time]_vars
    /\ [][(PollStep /\ signal_result = "failed" /\ distance' < MOTION_THRESHOLD)
            => pc' = "sending"]_vars
    /\ (<>[]listener_up => [](signal_result = "failed" => <>(signal_result = "ok")))

\* C4 witness: a send failed and the next alarm pass is trying again
C4_Witness ==
    pc = "sending" /\ signal_result = "failed" /\ clock # current_time

(* ---------------------------------------------------------------- *)
(* Claims about the LED and the alarm flag                          *)
(* ---------------------------------------------------------------- *)
InLoop == pc \in {"poll", "sending", "flush", "sleep"}

\* the values written to virtual pin 1 in this pass
FlagsPushed == {pin_writes[i][2] : i \in {j \in 1 .. Len(pin_writes) : pin_writes[j][1] = 1}}

\* C9: with a sample at or above the threshold the LED is off, no capture
\* signal is being sent, and a push writes flag 0 to pin 1, whatever the
\* passes before did
C9_SafeSample ==
    (InLoop /\ runs > 0 /\ distance >= MOTION_THRESHOLD)
        => (~led /\ pc # "sending" /\ FlagsPushed \subseteq {0})

\* C9 witness: a safe sample, pushed in full, after a capture signal had
\* been sent in an earlier alarm pass
C9_Witness ==
    /\ pc = "sleep"
    /\ distance >= MOTION_THRESHOLD
    /\ Len(pin_writes) = 2
    /\ signal_result = "ok"
    /\ ~led

\* C10: while the sample is below the threshold the flag pushed is 1 and
\* the LED follows the wall clock's parity (lit when int(2 * now) is even):
\* it agrees with the parity of the clock, or was driven less than half a
\* second ago, also while the pass blocks in a send
C10_BlinkFollowsClock ==
    (InLoop /\ distance < MOTION_THRESHOLD /\ pc \in {"sending", "flush", "sleep"})
        => /\ FlagsPushed \subseteq {1}
           /\ pc \in {"sending", "flush"}
                => \/ led = ((clock \div HALF_SECOND) % 2 = 0)
                   \/ clock - pass_start < HALF_SECOND

\* C11: a failure of an external call made during a pass is reported and
\* the loop goes on: the loop is left only by an interrupt
C11_LoopLeftOnlyByInterrupt ==
    [][(InLoop /\ ~InLoop') => pc' = "stopped"]_vars

\* C12: send_camera_capture_signal returns True exactly when connect and
\* send both returned, False otherwise, and whatever it returns the socket
\* it opened is closed by then: between calls the process holds no socket
C12_TrueIffSentAndClosed ==
    /\ (sig_pc = "idle" /\ sig_ret # "none")
            => /\ sig_ret \in {"True", "False"}
               /\ (sig_ret = "True") <=> (connected /\ sent)
    /\ (sig_pc \in {"idle", "socket"}) => open_socks = 0
    /\ open_socks <= 1

\* C12 witness: a call that connected, failed in send, and has returned
\* False with its socket closed
C12_Witness ==
    /\ sig_pc = "idle"
    /\ sig_ret = "False"
    /\ s_set /\ connected /\ ~sent
    /\ open_socks = 0

(* ---------------------------------------------------------------- *)
(* Claims about the log file                                        *)
(* ---------------------------------------------------------------- *)
IsHeader(l) ==
    l.time = "Time" /\ l.status = "Status" /\ l.distance = "Distance(cm)"

IsRecord(l) == l.time # "Time"

\* C7 as stated: in every record the status is NOT SAFE exactly when the
\* distance as written (two decimals) is below 20.00
C7_StatusFromWrittenValue ==
    \A i \in 1 .. Len(logfile) :
        IsRecord(logfile[i])
            => ((logfile[i].status = "NOT SAFE")
                    <=> (10 * logfile[i].distance < MOTION_THRESHOLD))

\* a call of log_distance_data that has written its line
LogStep == pc \in {"poll", "flush"} /\ pc' \in {"poll", "sleep"} /\ logfile' # logfile

\* C7 amended: the status of a record is NOT SAFE exactly when the sample
\* handed to log_distance_data is below 20.0, and the distance written is
\* that sample rounded to two decimals; so a record written below 20.00 is
\* NOT SAFE, one written above 20.00 is SAFE, and 20.00 goes with either
C7_StatusFromSample ==
    /\ [][LogStep =>
            LET line == logfile'[Len(logfile')]
            IN /\ IsRecord(line)
               /\ (line.status = "NOT SAFE") <=> (distance' < MOTION_THRESHOLD)
               /\ (line.status = "SAFE") <=> (distance' >= MOTION_THRESHOLD)
               /\ 10 * line.distance - 5 <= distance'
               /\ distance' < 10 * line.distance + 5]_vars
    /\ [](\A i \in 1 .. Len(logfile) :
            IsRecord(logfile[i])
                => /\ 10 * logfile[i].distance < MOTION_THRESHOLD
                        => logfile[i].status = "NOT SAFE"
                   /\ 10 * logfile[i].distance > MOTION_THRESHOLD
                        => logfile[i].status = "SAFE")

\* C7 witness: a sample just below 20.0 has been logged as 20.00, NOT SAFE
C7_Witness ==
    /\ pc = "poll"
    /\ distance = MOTION_THRESHOLD - 4
    /\ Len(logfile) = 2
    /\ logfile[2].distance * 10 = MOTION_THRESHOLD
    /\ logfile[2].status = "NOT SAFE"

C5_MalformedIgnored ==
    (conn # CAPTURE /\ peer # "reset")
        => (srv_pc # "crashed" /\ captures = captures_before)

\* C6: a connection that delivered b"capture" while the frame read
\* succeeded has added exactly one file, capture_<time of capture>.jpg
C6_OneNewFilePerSignal ==
    (srv_pc = "listening" /\ conn = CAPTURE /\ ret)
        => /\ Cardinality(captures) = Cardinality(captures_before) + 1
           /\ \E t \in 0 .. srv_clock :
                captures = captures_before \cup {filename(t)}

\* C13: the listener holds at most one accepted connection at any moment,
\* and none whenever it is about to accept: every accepted connection has
\* been closed by then, whatever it delivered and whatever the camera did
C13_OneConnectionAtATime ==
    /\ conn_open <= 1
    /\ srv_pc = "listening" => conn_open = 0

\* C13 witness: back in accept after a `capture` whose frame read failed
C13_Witness ==
    /\ srv_pc = "listening"
    /\ conn = CAPTURE /\ data = CAPTURE
    /\ ~ret
    /\ Cardinality(captures) = 1
    /\ conn_open = 0

\* C14: the listener ends only by an interrupt: after any connections it
\* is still in its accept loop
C14_NeverTerminates ==
    srv_pc \in {"listening", "accepted", "decoded", "camera", "stopped"}

\* C17: a camera opened for a signal is released before the next accept:
\* no camera handle is open while the listener is in accept
C17_CameraReleased ==
    /\ srv_pc = "listening" => cam_open = 0
    /\ cam_open <= 1

\* C17 witness: back in accept after a signal whose frame read failed,
\* the camera released
C17_Witness ==
    /\ srv_pc = "listening"
    /\ peer = "none"
    /\ data = CAPTURE
    /\ ~ret
    /\ captures = {}
    /\ cam_open = 0

\* C18: an accepted connection is eventually closed and the listener is
\* back in accept, whatever the client does after connecting
C18_AcceptedLeadsToListening ==
    (srv_pc = "accepted") ~> (srv_pc = "listening")

\* main, lines 198-202, have run
FlushStep == pc = "flush" /\ pc' = "sleep"

\* the two virtual_write calls of a complete push of d
FullPush(d) == << <<0, d>>, <<1, IF d < MOTION_THRESHOLD THEN 1 ELSE 0>> >>

\* C15: a pass in which LOG_INTERVAL has elapsed pushes the distance to
\* pin 0 and the flag to pin 1 (as far as the push gets), appends one
\* record (when the file can be written) whether or not the push failed,
\* and resets last_log_time whether or not push or append failed; a pass
\* in which it has not elapsed does none of this, so flushes are at least
\* 1.0 s apart
C15_FlushEveryInterval ==
    [][FlushStep =>
        IF clock - last_log_time >= LOG_INTERVAL
        THEN /\ last_log_time' = clock
             /\ \E done \in 0 .. 2 : pin_writes' = SubSeq(FullPush(distance), 1, done)
             /\ logfile' \in {logfile, Kept(Append(logfile, LogLine(distance)))}
             /\ \A done \in 0 .. 2, ok \in BOOLEAN :
                    Flush(done, ok)
                        => /\ pin_writes' = SubSeq(FullPush(distance), 1, done)
                           /\ logfile' = IF ok
                                         THEN Kept(Append(logfile, LogLine(distance)))
                                         ELSE logfile
        ELSE UNCHANGED <<pin_writes, logfile, last_log_time>>]_vars

\* C15 witness: a flush whose push failed after the first write, with the
\* record of the sample in the file and the timer reset
C15_Witness ==
    /\ pc = "sleep"
    /\ Len(pin_writes) = 1
    /\ last_log_time = clock
    /\ distance = MOTION_THRESHOLD
    /\ Len(logfile) = 2
    /\ logfile[2] = LogLine(distance)

\* C16: a pass whose sensor read fails goes on with distance 0.0 and is an
\* alarm pass: the LED follows the blink branch, a capture signal is
\* attempted if the cooldown is over, and a flush in a pass with distance
\* 0.0 writes flag 1 and status NOT SAFE
C16_FailedReadIsAlarm ==
    [][/\ (pc = "poll" /\ pc' # "poll")
            => \A r \in Readings :
                Poll(r, FALSE)
                    => /\ distance' = 0
                       /\ pc' \in {"sending", "flush"}
                       /\ led' = ((clock \div HALF_SECOND) % 2 = 0)
                       /\ (clock - last_camera_signal_time > camera_signal_cooldown)
                            => pc' = "sending"
       /\ (FlushStep /\ distance = 0)
            => /\ FlagsPushed' \subseteq {1}
               /\ (logfile' # logfile)
                    => logfile'[Len(logfile')].status = "NOT SAFE"]_vars

\* C16 witness: a pass with distance 0.0 lit the LED, sent the capture
\* signal, pushed flag 1 and logged NOT SAFE
C16_Witness ==
    /\ pc = "sleep"
    /\ distance = 0
    /\ led
    /\ last_done = clock
    /\ pin_writes = FullPush(0)
    /\ last_log_time = clock
    /\ Len(logfile) = 2
    /\ logfile[2].status = "NOT SAFE"

====
